---- MODULE Spec2Model ----
(***************************************************************************)
(* A model of src/bot.py: the Telegram relay bot whose handler handle_file *)
(* answers a file message with a streaming link and a download link.       *)
(*                                                                         *)
(* Conventions.                                                            *)
(*   - A Python str is a sequence of fragments.  Every fragment of a value *)
(*     that reaches urllib.parse.quote / quote_plus is one character;      *)
(*     string literals of the code that are only ever concatenated are     *)
(*     kept as one fragment.                                               *)
(*   - An Optional value is a sequence of length <= 1: <<>> is None and    *)
(*     <<x>> is the value x.                                               *)
(*   - One invocation of the coroutine handle_file runs in a task slot.    *)
(*     An action is the code the coroutine runs between two suspension     *)
(*     points (asyncio runs it without interleaving); the awaited outbound *)
(*     call's outcome is the input of the action that resumes it.          *)
(***************************************************************************)
EXTENDS FiniteSets, Integers, Sequences, TLC

VARIABLES
    BOT_TOKEN,        \* Optional str, read once from the environment
    VERCEL_BASE_URL,  \* Optional str, read once from the environment
    pc,               \* per task: where the invocation of handle_file stands
    update,           \* per task: the update handle_file was called with
    file_info,        \* per task: the local file_info (Optional attachment)
    file_name,        \* per task: the local file_name (Optional str)
    trace,            \* per task: the outbound calls made so far, in order
    outcomes,         \* per task: the outcomes of the awaited calls, in order
    exc               \* per task: the exception that left handle_file, if any

vars == <<BOT_TOKEN, VERCEL_BASE_URL, pc, update, file_info, file_name,
          trace, outcomes, exc>>

config == <<BOT_TOKEN, VERCEL_BASE_URL>>

\* Number of task slots the concurrent dispatcher of SpecConc runs.
MaxTasks == 2

Tasks == 1..MaxTasks

None == <<>>

Some(x) == <<x>>

--------------------------------------------------------------------------
(* Python semantics used by the handler.                                   *)

\* bool(x) of an Optional str / Optional object: None and "" are falsy.
Truthy(opt) == opt # None /\ opt[1] # <<>>

\* What an f-string renders for an Optional str: None renders as "None".
PyStr(opt) == IF opt = None THEN <<"N", "o", "n", "e">> ELSE opt[1]

Range(s) == {s[k] : k \in 1..Len(s)}

\* urllib.parse: the characters never quoted (letters, digits and "_.-~").
AlwaysSafe ==
    {"a", "b", "c", "d", "e", "f", "g", "h", "i", "j", "k", "l", "m",
     "n", "o", "p", "q", "r", "s", "t", "u", "v", "w", "x", "y", "z",
     "A", "B", "C", "D", "E", "F", "G", "H", "I", "J", "K", "L", "M",
     "N", "O", "P", "Q", "R", "S", "T", "U", "V", "W", "X", "Y", "Z",
     "0", "1", "2", "3", "4", "5", "6", "7", "8", "9",
     "_", ".", "-", "~"}

\* "%XX" for a character that is quoted (the ASCII ones the inputs use).
PercentEncode(c) ==
    CASE c = " " -> <<"%", "2", "0">>
      [] c = "%" -> <<"%", "2", "5">>
      [] c = "+" -> <<"%", "2", "B">>
      [] c = "/" -> <<"%", "2", "F">>
      [] c = ":" -> <<"%", "3", "A">>
      [] c = "?" -> <<"%", "3", "F">>
      [] c = "=" -> <<"%", "3", "D">>
      [] c = "&" -> <<"%", "2", "6">>
      [] c = "#" -> <<"%", "2", "3">>

RECURSIVE Quote(_, _)
\* urllib.parse.quote(string, safe): characters outside AlwaysSafe and safe
\* are percent-encoded.
Quote(string, safe) ==
    IF string = <<>> THEN <<>>
    ELSE (IF Head(string) \in AlwaysSafe \cup safe
          THEN <<Head(string)>>
          ELSE PercentEncode(Head(string))) \o Quote(Tail(string), safe)

\* str.replace(old, new) for one-character old and new.
Replace(string, old, new) ==
    [k \in 1..Len(string) |-> IF string[k] = old THEN new ELSE string[k]]

\* urllib.parse.quote_plus(string): safe = "", and a space becomes "+".
QuotePlus(string) ==
    IF " " \notin Range(string)
    THEN Quote(string, {})
    ELSE Replace(Quote(string, {" "}), " ", "+")

--------------------------------------------------------------------------
(* The inputs: the environment, the updates, the platform's answers.       *)

Token == <<"1", ":", "A">>

BaseUrl == <<"h", "t", "t", "p", "s", ":", "/", "/", "x", ".", "e">>

\* os.environ.get: unset (None) or the value; an empty value is possible
\* for the base URL and is falsy like None.
TokenValues == {None, Some(Token)}

BaseUrlValues == {None, Some(<<>>), Some(BaseUrl)}

VideoName == <<"a", " ", "b", ".", "m", "p", "4">>

AudioName == <<"s", "/", "t", "+", "1">>

DocumentName == <<"r", "#", "%", ".", "p", "d", "f">>

Attachments(id, uid, name) ==
    {[file_id |-> id, file_unique_id |-> uid, file_name |-> n] :
        n \in {None, Some(<<>>), Some(name)}}

Videos == Attachments(<<"fid-video">>, <<"u", "V", "1">>, VideoName)

Audios == Attachments(<<"fid-audio">>, <<"u", "A", "2">>, AudioName)

Documents == Attachments(<<"fid-document">>, <<"u", "D", "3">>, DocumentName)

Opt(S) == {None} \cup {Some(x) : x \in S}

\* telegram.Message, reduced to the three attributes handle_file reads.
Messages == [video : Opt(Videos), audio : Opt(Audios), document : Opt(Documents)]

\* telegram.Update: update.message is None for the updates that carry an
\* edited message, a channel post, ... (allowed_updates is ALL_TYPES and
\* filters.ALL accepts every effective message).
Updates == [message : Opt(Messages)]

TextMessage == [video |-> None, audio |-> None, document |-> None]

\* The updates the concurrent dispatcher draws from.
ConcUpdates ==
    {[message |-> None],
     [message |-> Some(TextMessage)],
     [message |-> Some([TextMessage EXCEPT
        !.video = Some([file_id |-> <<"fid-video">>,
                        file_unique_id |-> <<"u", "V", "1">>,
                        file_name |-> None])])],
     [message |-> Some([TextMessage EXCEPT
        !.document = Some([file_id |-> <<"fid-document">>,
                           file_unique_id |-> <<"u", "D", "3">>,
                           file_name |-> Some(DocumentName)])])]}

\* File.file_path as the platform returns it (Optional in the Bot API).
FilePaths ==
    {None,
     Some(<<"v", "/", "f", "0">>),
     Some(<<"d", "/", "a", " ", "b">>)}

\* str(e) of the exceptions (subclasses of Exception) the outbound calls raise.
GetFileErrors == {<<"Timed out">>, <<"File is too big">>}

ReplyErrors == {<<"Forbidden: bot was blocked by the user">>}

Returned(v) == [raised |-> FALSE, value |-> v]

Raised(e) == [raised |-> TRUE, value |-> Some(e)]

GetFileOutcomes ==
    {Returned(p) : p \in FilePaths} \cup {Raised(e) : e \in GetFileErrors}

ReplyOutcomes == {Returned(None)} \cup {Raised(e) : e \in ReplyErrors}

--------------------------------------------------------------------------
(* The outbound calls, as recorded in trace.                               *)

GetFileCall(id) ==
    [op |-> "get_file", arg |-> id, markdown |-> FALSE, no_preview |-> FALSE]

ReplyCall(text) ==
    [op |-> "reply_text", arg |-> text, markdown |-> FALSE, no_preview |-> FALSE]

MarkdownReplyCall(text) ==
    [op |-> "reply_text", arg |-> text, markdown |-> TRUE, no_preview |-> TRUE]

LogErrorCall(text) ==
    [op |-> "logger.error", arg |-> text, markdown |-> FALSE, no_preview |-> FALSE]

--------------------------------------------------------------------------
(* handle_file: the pure parts.                                            *)

\* NameOr with the test "file_info.file_name is not None" in place of the
\* truth test: an empty name is kept.
NameOr_IsNotNone(info, default) ==
    IF info.file_name # None THEN info.file_name[1] ELSE default

\* file_info.file_name or default.
NameOr(info, default) ==
    IF Truthy(info.file_name) THEN info.file_name[1] ELSE default

VideoDefaultName(info) ==
    <<"v", "i", "d", "e", "o", "_">> \o info.file_unique_id \o <<".", "m", "p", "4">>

AudioDefaultName(info) ==
    <<"a", "u", "d", "i", "o", "_">> \o info.file_unique_id \o <<".", "m", "p", "3">>

DocumentDefaultName(info) ==
    <<"d", "o", "c", "u", "m", "e", "n", "t", "_">> \o info.file_unique_id

\* Classify with the chain in the order document, audio, video.
Classify_DocumentFirst(message) ==
    IF message.document # None
    THEN [file_info |-> message.document,
          file_name |-> Some(NameOr(message.document[1],
                                    DocumentDefaultName(message.document[1])))]
    ELSE IF message.audio # None
    THEN [file_info |-> message.audio,
          file_name |-> Some(NameOr(message.audio[1],
                                    AudioDefaultName(message.audio[1])))]
    ELSE IF message.video # None
    THEN [file_info |-> message.video,
          file_name |-> Some(NameOr(message.video[1],
                                    VideoDefaultName(message.video[1])))]
    ELSE [file_info |-> None, file_name |-> None]

\* The if / elif / elif chain over message.video, .audio, .document: the
\* locals file_info and file_name after it (both None when nothing matched).
Classify(message) ==
    IF message.video # None
    THEN [file_info |-> message.video,
          file_name |-> Some(NameOr(message.video[1],
                                    VideoDefaultName(message.video[1])))]
    ELSE IF message.audio # None
    THEN [file_info |-> message.audio,
          file_name |-> Some(NameOr(message.audio[1],
                                    AudioDefaultName(message.audio[1])))]
    ELSE IF message.document # None
    THEN [file_info |-> message.document,
          file_name |-> Some(NameOr(message.document[1],
                                    DocumentDefaultName(message.document[1])))]
    ELSE [file_info |-> None, file_name |-> None]

GuidanceText == <<"Please send a file (video, audio, or document).">>

ConfigErrorText ==
    <<"Error: VERCEL_BASE_URL is not configured. Please set the environment variable.">>

\* BaseUrlMissing testing the other setting: "not BOT_TOKEN".
BaseUrlMissing_TokenCheck == ~Truthy(BOT_TOKEN)

\* not VERCEL_BASE_URL.
BaseUrlMissing == ~Truthy(VERCEL_BASE_URL)

\* FirstStep with the configuration check moved before the attachment check.
FirstStep_ConfigFirst(info) ==
    IF ~Truthy(VERCEL_BASE_URL)
    THEN [call |-> ReplyCall(ConfigErrorText), pc |-> "reply_config"]
    ELSE IF info = None
    THEN [call |-> ReplyCall(GuidanceText), pc |-> "reply_guidance"]
    ELSE [call |-> GetFileCall(info[1].file_id), pc |-> "get_file"]

\* Lines 58-73 for the locals after the chain: the first outbound call of
\* the invocation and the await it suspends at (the two early replies, else
\* the call that opens the try block).
FirstStep(info) ==
    IF info = None
    THEN [call |-> ReplyCall(GuidanceText), pc |-> "reply_guidance"]
    ELSE IF BaseUrlMissing
    THEN [call |-> ReplyCall(ConfigErrorText), pc |-> "reply_config"]
    ELSE [call |-> GetFileCall(info[1].file_id), pc |-> "get_file"]

FileUrlPrefix ==
    <<"h", "t", "t", "p", "s", ":", "/", "/", "a", "p", "i", ".",
      "t", "e", "l", "e", "g", "r", "a", "m", ".", "o", "r", "g", "/",
      "f", "i", "l", "e", "/", "b", "o", "t">>

\* f"https://api.telegram.org/file/bot{BOT_TOKEN}/{file_path}"
TelegramFileUrl(file_path) ==
    FileUrlPrefix \o PyStr(BOT_TOKEN) \o <<"/">> \o PyStr(file_path)

EncodedTelegramUrl(file_path) == QuotePlus(TelegramFileUrl(file_path))

\* SafeFilename with the query-value encoding used for the path segment.
SafeFilename_QuotePlus(name) == QuotePlus(name)

\* urllib.parse.quote(file_name): safe defaults to "/".
SafeFilename(name) == Quote(name, {"/"})

StreamingLink(name, file_path) ==
    PyStr(VERCEL_BASE_URL) \o <<"/", "w", "a", "t", "c", "h", "/">>
        \o SafeFilename(name)
        \o <<"?", "f", "i", "l", "e", "_", "u", "r", "l", "=">>
        \o EncodedTelegramUrl(file_path)

DownloadLink(name, file_path) ==
    PyStr(VERCEL_BASE_URL) \o <<"/", "d", "o", "w", "n", "l", "o", "a", "d", "/">>
        \o SafeFilename(name)
        \o <<"?", "f", "i", "l", "e", "_", "u", "r", "l", "=">>
        \o EncodedTelegramUrl(file_path)

\* The fragments that stand for the characters "backtick" and "newline" of
\* the reply's Markdown.
Backtick == "<backtick>"

Newline == "<newline>"

\* response_text.
FormatResponse(name, streaming_link, download_link) ==
    <<"**File:** ", Backtick>> \o name
        \o <<Backtick, Newline, Newline, "**Streaming Link:**", Newline, Backtick>>
        \o streaming_link
        \o <<Backtick, Newline, Newline, "**Download Link:**", Newline, Backtick>>
        \o download_link
        \o <<Backtick, Newline, Newline,
             "The Vercel application will stream the file directly from Telegram's servers.">>

ResponseText(name, file_path) ==
    FormatResponse(name, StreamingLink(name, file_path),
                   DownloadLink(name, file_path))

LogErrorText(e) == <<"Error processing file: ">> \o e

\* ErrorReplyText without the exception's text.
ErrorReplyText_Generic(e) == <<"An error occurred while generating the links.">>

ErrorReplyText(e) == <<"An error occurred while generating the links: ">> \o e

\* The except block: log the exception, then reply with its text.
ExceptCalls(e) == <<LogErrorCall(LogErrorText(e)), ReplyCall(ErrorReplyText(e))>>

\* LocalFileName with file_name kept in a variable of the module, shared by
\* the invocations: task i reads what some invocation in flight stored.
LocalFileName_Shared(i) ==
    file_name[CHOOSE j \in Tasks : file_name[j] # None][1]

\* The local file_name as task i reads it after its awaits.
LocalFileName(i) == file_name[i][1]

--------------------------------------------------------------------------
(* handle_file: the steps of one invocation.                               *)

Init ==
    /\ BOT_TOKEN \in TokenValues
    /\ VERCEL_BASE_URL \in BaseUrlValues
    /\ pc = [i \in Tasks |-> "idle"]
    /\ update = [i \in Tasks |-> None]
    /\ file_info = [i \in Tasks |-> None]
    /\ file_name = [i \in Tasks |-> None]
    /\ trace = [i \in Tasks |-> <<>>]
    /\ outcomes = [i \in Tasks |-> <<>>]
    /\ exc = [i \in Tasks |-> None]

\* The dispatcher calls handle_file(u): the coroutine runs up to its first
\* await.  message.video on a missing message raises AttributeError.
Invoke(i, u) ==
    /\ pc[i] = "idle"
    /\ update' = [update EXCEPT ![i] = Some(u)]
    /\ outcomes' = [outcomes EXCEPT ![i] = <<>>]
    /\ IF u.message = None
       THEN /\ pc' = [pc EXCEPT ![i] = "raised"]
            /\ exc' = [exc EXCEPT ![i] =
                  Some(<<"'NoneType' object has no attribute 'video'">>)]
            /\ file_info' = [file_info EXCEPT ![i] = None]
            /\ file_name' = [file_name EXCEPT ![i] = None]
            /\ trace' = [trace EXCEPT ![i] = <<>>]
       ELSE LET c == Classify(u.message[1]) IN
            /\ file_info' = [file_info EXCEPT ![i] = c.file_info]
            /\ file_name' = [file_name EXCEPT ![i] = c.file_name]
            /\ trace' = [trace EXCEPT ![i] = <<FirstStep(c.file_info).call>>]
            /\ pc' = [pc EXCEPT ![i] = FirstStep(c.file_info).pc]
            /\ exc' = [exc EXCEPT ![i] = None]
    /\ UNCHANGED config

\* An awaited reply_text outside the try block completes: return, or the
\* exception leaves handle_file.
Leave(i, r) ==
    /\ outcomes' = [outcomes EXCEPT ![i] = Append(@, r)]
    /\ pc' = [pc EXCEPT ![i] = IF r.raised THEN "raised" ELSE "returned"]
    /\ exc' = [exc EXCEPT ![i] = IF r.raised THEN r.value ELSE None]
    /\ UNCHANGED <<config, update, file_info, file_name, trace>>

\* The except block runs for the exception r and awaits its reply_text.
Except(i, r) ==
    /\ outcomes' = [outcomes EXCEPT ![i] = Append(@, r)]
    /\ trace' = [trace EXCEPT ![i] = @ \o ExceptCalls(r.value[1])]
    /\ pc' = [pc EXCEPT ![i] = "reply_error"]
    /\ UNCHANGED <<config, update, file_info, file_name, exc>>

\* ReplyGuidanceDone without the return after the guidance reply: the
\* handler goes on to the configuration check and, past it, to
\* file_info.file_id of a file_info that is None, inside the try block.
ReplyGuidanceDone_NoReturn(i, r) ==
    /\ pc[i] = "reply_guidance"
    /\ IF r.raised
       THEN Leave(i, r)
       ELSE /\ outcomes' = [outcomes EXCEPT ![i] = Append(@, r)]
            /\ IF BaseUrlMissing
               THEN /\ trace' = [trace EXCEPT ![i] = Append(@, ReplyCall(ConfigErrorText))]
                    /\ pc' = [pc EXCEPT ![i] = "reply_config"]
               ELSE /\ trace' = [trace EXCEPT ![i] = @ \o ExceptCalls(
                          <<"'NoneType' object has no attribute 'file_id'">>)]
                    /\ pc' = [pc EXCEPT ![i] = "reply_error"]
            /\ UNCHANGED <<config, update, file_info, file_name, exc>>

\* await message.reply_text(guidance) completes; return.
ReplyGuidanceDone(i, r) ==
    /\ pc[i] = "reply_guidance"
    /\ Leave(i, r)

\* await message.reply_text(configuration error) completes; return.
ReplyConfigDone(i, r) ==
    /\ pc[i] = "reply_config"
    /\ Leave(i, r)

\* await context.bot.get_file(...) completes: build the links and await the
\* links reply, or enter the except block.
GetFileDone(i, r) ==
    /\ pc[i] = "get_file"
    /\ IF r.raised
       THEN Except(i, r)
       ELSE /\ outcomes' = [outcomes EXCEPT ![i] = Append(@, r)]
            /\ trace' = [trace EXCEPT ![i] =
                  Append(@, MarkdownReplyCall(ResponseText(LocalFileName(i), r.value)))]
            /\ pc' = [pc EXCEPT ![i] = "reply_links"]
            /\ UNCHANGED <<config, update, file_info, file_name, exc>>

\* await message.reply_text(response_text, ...) completes inside the try
\* block: fall off the end of handle_file, or enter the except block.
ReplyLinksDone(i, r) ==
    /\ pc[i] = "reply_links"
    /\ IF r.raised
       THEN Except(i, r)
       ELSE Leave(i, r)

\* await message.reply_text(error) inside the except block completes.
ReplyErrorDone(i, r) ==
    /\ pc[i] = "reply_error"
    /\ Leave(i, r)

\* The invocation is over and the dispatcher goes on with the next update
\* (an exception that left the handler is handed to the library's error
\* handling; the event loop keeps running).
NextUpdate(i) ==
    /\ pc[i] \in {"returned", "raised"}
    /\ pc' = [pc EXCEPT ![i] = "idle"]
    /\ update' = [update EXCEPT ![i] = None]
    /\ file_info' = [file_info EXCEPT ![i] = None]
    /\ file_name' = [file_name EXCEPT ![i] = None]
    /\ trace' = [trace EXCEPT ![i] = <<>>]
    /\ outcomes' = [outcomes EXCEPT ![i] = <<>>]
    /\ exc' = [exc EXCEPT ![i] = None]
    /\ UNCHANGED config

\* The resumption of task i, whichever await it is suspended at.
Resume(i) ==
    \/ \E r \in ReplyOutcomes : ReplyGuidanceDone(i, r)
    \/ \E r \in ReplyOutcomes : ReplyConfigDone(i, r)
    \/ \E r \in GetFileOutcomes : GetFileDone(i, r)
    \/ \E r \in ReplyOutcomes : ReplyLinksDone(i, r)
    \/ \E r \in ReplyOutcomes : ReplyErrorDone(i, r)

\* The application as main() builds it: updates are processed one at a
\* time (task slot 1), each handle_file to its end before the next.
Next ==
    \/ \E u \in Updates : Invoke(1, u)
    \/ \E r \in ReplyOutcomes : ReplyGuidanceDone(1, r)
    \/ \E r \in ReplyOutcomes : ReplyConfigDone(1, r)
    \/ \E r \in GetFileOutcomes : GetFileDone(1, r)
    \/ \E r \in ReplyOutcomes : ReplyLinksDone(1, r)
    \/ \E r \in ReplyOutcomes : ReplyErrorDone(1, r)
    \/ NextUpdate(1)

Spec == Init /\ [][Next]_vars

\* A dispatcher that delivers updates concurrently: every task slot runs
\* its own invocation and the invocations interleave at their awaits.
NextConc ==
    \/ \E i \in Tasks, u \in ConcUpdates : Invoke(i, u)
    \/ \E i \in Tasks, r \in ReplyOutcomes : ReplyGuidanceDone(i, r)
    \/ \E i \in Tasks, r \in ReplyOutcomes : ReplyConfigDone(i, r)
    \/ \E i \in Tasks, r \in GetFileOutcomes : GetFileDone(i, r)
    \/ \E i \in Tasks, r \in ReplyOutcomes : ReplyLinksDone(i, r)
    \/ \E i \in Tasks, r \in ReplyOutcomes : ReplyErrorDone(i, r)
    \/ \E i \in Tasks : NextUpdate(i)

SpecConc == Init /\ [][NextConc]_vars

--------------------------------------------------------------------------
(* The properties.                                                         *)

\* haystack contains needle as a contiguous substring.
Contains(haystack, needle) ==
    \E k \in 0..(Len(haystack) - Len(needle)) :
        SubSeq(haystack, k + 1, k + Len(needle)) = needle

StartsWith(s, prefix) ==
    Len(prefix) <= Len(s) /\ SubSeq(s, 1, Len(prefix)) = prefix

Invoked(i) == update[i] # None

\* The message of the update task i handles (None when the update has none).
MessageOf(i) == update[i][1].message

HasMessage(i) == Invoked(i) /\ MessageOf(i) # None

HasFile(message) ==
    message.video # None \/ message.audio # None \/ message.document # None

Finished(i) == pc[i] \in {"returned", "raised"}

CallsOf(i, op) == SelectSeq(trace[i], LAMBDA c : c.op = op)

WatchSegment == <<"/", "w", "a", "t", "c", "h", "/">>

DownloadSegment == <<"/", "d", "o", "w", "n", "l", "o", "a", "d", "/">>

\* A reply that carries a streaming or a download link.
IsLinksReply(c) ==
    /\ c.op = "reply_text"
    /\ Contains(c.arg, WatchSegment) \/ Contains(c.arg, DownloadSegment)

IsGuidanceReply(c) == c.op = "reply_text" /\ c.arg = GuidanceText

IsConfigErrorReply(c) == c.op = "reply_text" /\ c.arg = ConfigErrorText

ProcessingErrorPrefix == <<"An error occurred while generating the links: ">>

IsProcessingErrorReply(c) ==
    c.op = "reply_text" /\ StartsWith(c.arg, ProcessingErrorPrefix)

SentLinks(i) == \E k \in 1..Len(trace[i]) : IsLinksReply(trace[i][k])

\* C1: no error propagates out of handle_file: whatever the update and
\* whatever the outbound calls do, an invocation never ends by raising.
C1_NeverRaises == \A i \in Tasks : pc[i] # "raised"

\* C2: a file message handled while VERCEL_BASE_URL or BOT_TOKEN is unset
\* gets the configuration-error reply, and no reply with a link is sent.
C2_MissingConfigRefused ==
    \A i \in Tasks :
        (/\ HasMessage(i)
         /\ HasFile(MessageOf(i)[1])
         /\ VERCEL_BASE_URL = None \/ BOT_TOKEN = None)
        => /\ IsConfigErrorReply(trace[i][1])
           /\ ~SentLinks(i)

\* C3: with VERCEL_BASE_URL unset, no invocation on a file message ever
\* calls context.bot.get_file.
C3_NoGetFileWithoutBaseUrl ==
    VERCEL_BASE_URL = None =>
        \A i \in Tasks :
            (HasMessage(i) /\ HasFile(MessageOf(i)[1]))
            => /\ CallsOf(i, "get_file") = <<>>
               /\ IsConfigErrorReply(trace[i][1])

\* An invocation on a file message, base URL unset, has run to its end.
C3_Witness ==
    /\ VERCEL_BASE_URL = None
    /\ BOT_TOKEN # None
    /\ \E i \in Tasks :
        /\ HasMessage(i)
        /\ HasFile(MessageOf(i)[1])
        /\ pc[i] = "returned"

\* C4: a message with none of video, audio, document gets the fixed
\* guidance text and nothing else happens, whatever the configuration: the
\* guidance reply is the only outbound call of the invocation.
C4_GuidanceOnly ==
    \A i \in Tasks :
        (HasMessage(i) /\ ~HasFile(MessageOf(i)[1]))
        => /\ trace[i] =
                <<[op |-> "reply_text",
                   arg |-> <<"Please send a file (video, audio, or document).">>,
                   markdown |-> FALSE, no_preview |-> FALSE]>>
           /\ pc[i] \in {"reply_guidance", "returned", "raised"}

\* A non-file message was answered while the base URL is unset.
C4_Witness ==
    /\ VERCEL_BASE_URL = None
    /\ \E i \in Tasks :
        /\ HasMessage(i)
        /\ ~HasFile(MessageOf(i)[1])
        /\ pc[i] = "returned"

\* The invocation of task i called get_file and the call raised.
GetFileRaised(i) ==
    /\ trace[i] # <<>>
    /\ trace[i][1].op = "get_file"
    /\ outcomes[i] # <<>>
    /\ outcomes[i][1].raised

\* C5: when get_file raises, the exception is caught (it does not leave
\* the handler), an error entry is logged, then a processing-error reply
\* with the exception's text is sent; no links reply is sent.
C5_GetFileErrorReported ==
    \A i \in Tasks :
        GetFileRaised(i) =>
            LET e == outcomes[i][1].value[1] IN
            /\ Len(trace[i]) = 3
            /\ trace[i][2].op = "logger.error"
            /\ Contains(trace[i][2].arg, e)
            /\ IsProcessingErrorReply(trace[i][3])
            /\ Contains(trace[i][3].arg, e)
            /\ ~SentLinks(i)
            /\ Len(outcomes[i]) = 1 => pc[i] = "reply_error"
            /\ pc[i] = "raised" => (Len(outcomes[i]) = 2 /\ outcomes[i][2].raised)

\* get_file raised and the error reply went out.
C5_Witness ==
    \E i \in Tasks :
        /\ GetFileRaised(i)
        /\ pc[i] = "returned"

\* The attachment of kind k that task i selected, if it selected that one.
SelectedIs(i, k) == file_info[i] # None /\ file_info[i] = MessageOf(i)[1][k]

\* The synthesized filename of each kind, for the unique id uid.
SynthesizedName(k, uid) ==
    CASE k = "video" -> <<"v", "i", "d", "e", "o", "_">> \o uid \o <<".", "m", "p", "4">>
      [] k = "audio" -> <<"a", "u", "d", "i", "o", "_">> \o uid \o <<".", "m", "p", "3">>
      [] k = "document" -> <<"d", "o", "c", "u", "m", "e", "n", "t", "_">> \o uid

Kinds == {"video", "audio", "document"}

\* C6 as stated: an attachment whose platform-supplied name is present
\* keeps that name; one without a name gets the synthesized name of its
\* kind.
C6_FilenameAsStated ==
    \A i \in Tasks : \A k \in Kinds :
        (HasMessage(i) /\ SelectedIs(i, k)) =>
            LET a == file_info[i][1] IN
            file_name[i] =
                IF a.file_name # None
                THEN a.file_name
                ELSE Some(SynthesizedName(k, a.file_unique_id))

\* C6 amended: a name that is present and not empty is kept; an absent or
\* empty name is replaced by the synthesized name of the kind.
C6_FilenameDerivation ==
    \A i \in Tasks : \A k \in Kinds :
        (HasMessage(i) /\ SelectedIs(i, k)) =>
            LET a == file_info[i][1] IN
            file_name[i] =
                IF a.file_name # None /\ a.file_name[1] # <<>>
                THEN a.file_name
                ELSE Some(SynthesizedName(k, a.file_unique_id))

\* A video whose name is the empty string went through with the
\* synthesized name "video_uV1.mp4".
C6_Witness ==
    \E i \in Tasks :
        /\ HasMessage(i)
        /\ SelectedIs(i, "video")
        /\ file_info[i][1].file_name = Some(<<>>)
        /\ file_name[i] = Some(<<"v", "i", "d", "e", "o", "_", "u", "V", "1",
                                 ".", "m", "p", "4">>)
        /\ pc[i] = "returned"

\* The links reply of task i, given that it sent one: the call after
\* get_file.
LinksReplySent(i) ==
    /\ Len(trace[i]) >= 2
    /\ Len(outcomes[i]) >= 1
    /\ trace[i][1].op = "get_file"
    /\ ~outcomes[i][1].raised

\* C7: the two links of the reply are base/watch/F?file_url=U and
\* base/download/F?file_url=U with the same F = quote(file_name) and the
\* same U = quote_plus(source URL), where the source URL is the fixed prefix
\* + token + "/" + the path get_file returned for the selected attachment.
C7_LinkTemplates ==
    \A i \in Tasks :
        LinksReplySent(i) =>
            LET base == PyStr(VERCEL_BASE_URL)
                path == PyStr(outcomes[i][1].value)
                source == <<"h", "t", "t", "p", "s", ":", "/", "/", "a", "p", "i",
                            ".", "t", "e", "l", "e", "g", "r", "a", "m", ".", "o",
                            "r", "g", "/", "f", "i", "l", "e", "/", "b", "o", "t">>
                          \o PyStr(BOT_TOKEN) \o <<"/">> \o path
                F == Quote(file_name[i][1], {"/"})
                U == QuotePlus(source)
                query == <<"?", "f", "i", "l", "e", "_", "u", "r", "l", "=">>
                watch == base \o WatchSegment \o F \o query \o U
                download == base \o DownloadSegment \o F \o query \o U
            IN  /\ trace[i][1].arg = file_info[i][1].file_id
                /\ trace[i][2].op = "reply_text"
                /\ trace[i][2].arg =
                      <<"**File:** ", Backtick>> \o file_name[i][1]
                      \o <<Backtick, Newline, Newline, "**Streaming Link:**",
                            Newline, Backtick>> \o watch
                      \o <<Backtick, Newline, Newline, "**Download Link:**",
                            Newline, Backtick>> \o download
                      \o <<Backtick, Newline, Newline,
                            "The Vercel application will stream the file directly from Telegram's servers.">>

\* A video named "a b.mp4", resolved to the path "d/a b", went through
\* with both settings present: the filename is encoded with %20, the
\* source URL with "+".
C7_Witness ==
    \E i \in Tasks :
        /\ LinksReplySent(i)
        /\ pc[i] = "returned"
        /\ BOT_TOKEN # None
        /\ file_name[i] = Some(VideoName)
        /\ outcomes[i][1].value = Some(<<"d", "/", "a", " ", "b">>)
        /\ Contains(trace[i][2].arg, <<"/", "a", "%", "2", "0", "b", ".", "m", "p", "4", "?">>)
        /\ Contains(trace[i][2].arg, <<"%", "2", "F", "a", "+", "b">>)

\* The attachments of the message of task i, in the order of priority.
Priority == <<"video", "audio", "document">>

PresentKinds(i) == {n \in 1..3 : MessageOf(i)[1][Priority[n]] # None}

\* C8: when a message carries more than one of video, audio, document,
\* exactly one is processed, the first present in the order video, audio,
\* document: the id given to get_file and the filename both come from it
\* and not from an attachment of lower priority.
C8_FirstKindWins ==
    \A i \in Tasks :
        (HasMessage(i) /\ Cardinality(PresentKinds(i)) > 1) =>
            LET first == CHOOSE n \in PresentKinds(i) :
                             \A o \in PresentKinds(i) : n <= o
                chosen == MessageOf(i)[1][Priority[first]][1]
            IN  /\ file_info[i] = Some(chosen)
                /\ \/ file_name[i] = chosen.file_name
                   \/ file_name[i] =
                        Some(SynthesizedName(Priority[first], chosen.file_unique_id))
                /\ Len(CallsOf(i, "get_file")) <= 1
                /\ \A k \in 1..Len(trace[i]) :
                      trace[i][k].op = "get_file" => trace[i][k].arg = chosen.file_id
                /\ \A o \in PresentKinds(i) \ {first} :
                      LET lower == MessageOf(i)[1][Priority[o]][1] IN
                      /\ ~Contains(file_name[i][1], lower.file_unique_id)
                      /\ Truthy(lower.file_name) => file_name[i] # lower.file_name

\* A message with a video, an audio and a document, all three named, went
\* through to the links reply.
C8_Witness ==
    \E i \in Tasks :
        /\ HasMessage(i)
        /\ PresentKinds(i) = {1, 2, 3}
        /\ \A n \in 1..3 : Truthy(MessageOf(i)[1][Priority[n]][1].file_name)
        /\ LinksReplySent(i)
        /\ pc[i] = "returned"

\* The links reply of task i was sent and sending it raised.
LinksReplyRaised(i) ==
    /\ LinksReplySent(i)
    /\ Len(outcomes[i]) >= 2
    /\ outcomes[i][2].raised

\* The outbound calls of an invocation that runs alone on update u under
\* the configuration, after its awaited calls had the outcomes outs: a
\* function of u, outs, BOT_TOKEN and VERCEL_BASE_URL and of nothing else.
SoloTrace(u, outs) ==
    IF u.message = None THEN <<>>
    ELSE
        LET c == Classify(u.message[1])
            first == FirstStep(c.file_info).call
            links == MarkdownReplyCall(ResponseText(c.file_name[1], outs[1].value))
        IN  IF first.op # "get_file" \/ outs = <<>> THEN <<first>>
            ELSE IF outs[1].raised
            THEN <<first>> \o ExceptCalls(outs[1].value[1])
            ELSE IF Len(outs) >= 2 /\ outs[2].raised
            THEN <<first, links>> \o ExceptCalls(outs[2].value[1])
            ELSE <<first, links>>

Suspended(i) == pc[i] \notin {"idle", "returned", "raised"}

\* C9: concurrent invocations are independent: under every interleaving,
\* the calls an invocation makes (its get_file and its replies) are those
\* it would make alone on its own update, its own calls' outcomes and the
\* configuration; and an invocation suspended at an await can always be
\* resumed, whatever the other invocations are doing.
C9_Independent ==
    \A i \in Tasks :
        /\ Invoked(i) => trace[i] = SoloTrace(update[i][1], outcomes[i])
        /\ Suspended(i) => ENABLED Resume(i)

\* Task 1's get_file failed and it still awaits its error reply, while
\* task 2, on another file message, has sent its links and returned.
C9_Witness ==
    /\ pc[1] = "reply_error"
    /\ GetFileRaised(1)
    /\ pc[2] = "returned"
    /\ LinksReplySent(2)
    /\ ~LinksReplyRaised(2)
    /\ file_name[1] # file_name[2]

ReplyCount(i) == Len(CallsOf(i, "reply_text"))

\* C10 as stated, on the updates that carry a message: an invocation that
\* has ended attempted exactly one reply and called get_file at most once.
C10_ExactlyOneReply ==
    \A i \in Tasks :
        (HasMessage(i) /\ Finished(i)) =>
            /\ ReplyCount(i) = 1
            /\ Len(CallsOf(i, "get_file")) <= 1

\* C10 amended: every invocation calls get_file at most once and attempts
\* at most two replies.  One that has ended attempted no reply when the
\* update had no message, two when sending the links reply raised (the
\* links reply, then the processing-error reply with that exception's
\* text), and otherwise exactly one, which is the guidance, the
\* configuration-error, the links or the processing-error reply.
C10_ReplyCount ==
    \A i \in Tasks :
        /\ Len(CallsOf(i, "get_file")) <= 1
        /\ ReplyCount(i) <= 2
        /\ (Invoked(i) /\ Finished(i)) =>
              ReplyCount(i) = IF ~HasMessage(i) THEN 0
                              ELSE IF LinksReplyRaised(i) THEN 2
                              ELSE 1
        /\ ReplyCount(i) >= 1 =>
              LET r == CallsOf(i, "reply_text")[1] IN
              \/ IsGuidanceReply(r)
              \/ IsConfigErrorReply(r)
              \/ IsLinksReply(r)
              \/ IsProcessingErrorReply(r)
        /\ ReplyCount(i) = 2 =>
              LET rs == CallsOf(i, "reply_text") IN
              /\ LinksReplyRaised(i)
              /\ IsLinksReply(rs[1])
              /\ IsProcessingErrorReply(rs[2])
              /\ Contains(rs[2].arg, outcomes[i][2].value[1])

\* Sending the links reply raised, the processing-error reply followed and
\* the invocation ended.
C10_Witness ==
    \E i \in Tasks :
        /\ LinksReplyRaised(i)
        /\ ReplyCount(i) = 2
        /\ pc[i] = "returned"

====
